---- MODULE Spec2Model ----
(***************************************************************************)
(* Model of the sensor dashboard component App (App.jsx): the realtime     *)
(* database subscription with its snapshot and error callbacks, the        *)
(* normalizer that turns a snapshot into the held readings, the range      *)
(* filter, and the two range-selection handlers.                           *)
(*                                                                         *)
(* JavaScript values are records [t, n, s]: t is the type tag, n the       *)
(* number (two limbs <<hi, lo>> standing for hi * 10^6 + lo, so that       *)
(* millisecond instants such as 1609459200000 and 1e15 are exact), s the   *)
(* characters of a string.                                                 *)
(***************************************************************************)
EXTENDS Integers, Sequences, FiniteSets, TLC

\* ---------------------------------------------------------------- bounds
MaxEntries == 2
MaxMounts == 2

\* --------------------------------------------------------------- numbers
Limb == 1000 * 1000

Norm(hi, lo) == <<hi + (lo \div Limb), lo % Limb>>

FromInt(k) == Norm(0, k)

Add(a, b) == Norm(a[1] + b[1], a[2] + b[2])

Sub(a, b) == Norm(a[1] - b[1], a[2] - b[2])

Times(a, k) == Norm(a[1] * k, a[2] * k)

Less(a, b) == \/ a[1] < b[1]
              \/ a[1] = b[1] /\ a[2] < b[2]

Leq(a, b) == a = b \/ Less(a, b)

Zero == <<0, 0>>

\* ------------------------------------------------------------- JS values
Undefined == [t |-> "undefined", n |-> Zero, s |-> <<>>]

Null == [t |-> "null", n |-> Zero, s |-> <<>>]

NaN == [t |-> "NaN", n |-> Zero, s |-> <<>>]

Num(a) == [t |-> "number", n |-> a, s |-> <<>>]

Str(chars) == [t |-> "string", n |-> Zero, s |-> chars]

\* a dayjs instant: an object wrapping milliseconds since the epoch
Dayjs(ms) == [t |-> "object", n |-> ms, s |-> <<>>]

Digits == <<"0", "1", "2", "3", "4", "5", "6", "7", "8", "9">>

IsDigit(c) == \E i \in 1..10 : Digits[i] = c

DigitValue(c) == (CHOOSE i \in 1..10 : Digits[i] = c) - 1

RECURSIVE DecimalValue(_)
DecimalValue(chars) ==
  IF chars = <<>> THEN Zero
  ELSE Add(Times(DecimalValue(SubSeq(chars, 1, Len(chars) - 1)), 10),
           FromInt(DigitValue(chars[Len(chars)])))

\* StringToNumber on strings of decimal digits and letters: the empty
\* string is 0, a digit string is its decimal value, anything else is NaN.
StringToNumber(chars) ==
  IF \A i \in 1..Len(chars) : IsDigit(chars[i])
  THEN Num(DecimalValue(chars))
  ELSE NaN

\* Number(x)
Number(x) ==
  CASE x.t = "undefined" -> NaN
    [] x.t = "null" -> Num(Zero)
    [] x.t = "number" -> x
    [] x.t = "NaN" -> NaN
    [] x.t = "string" -> StringToNumber(x.s)
    [] x.t = "object" -> Num(x.n)

\* Number.isNaN(x)
IsNaN(x) == x.t = "NaN"

\* a ?? b
Coalesce(a, b) == IF a.t \in {"undefined", "null"} THEN b ELSE a

\* ToBoolean(x), the test of !x and of filter's predicate
Truthy(x) ==
  CASE x.t = "undefined" -> FALSE
    [] x.t = "null" -> FALSE
    [] x.t = "NaN" -> FALSE
    [] x.t = "number" -> x.n # Zero
    [] x.t = "string" -> x.s # <<>>
    [] x.t = "object" -> TRUE

\* ---------------------------------------------------------- formatMetric
RECURSIVE NatDigits(_)
NatDigits(k) ==
  IF k < 10 THEN <<Digits[k + 1]>>
  ELSE NatDigits(k \div 10) \o <<Digits[(k % 10) + 1]>>

\* the six digits of a low limb
LimbDigits(lo) ==
  <<Digits[((lo \div 100000) % 10) + 1], Digits[((lo \div 10000) % 10) + 1],
    Digits[((lo \div 1000) % 10) + 1], Digits[((lo \div 100) % 10) + 1],
    Digits[((lo \div 10) % 10) + 1], Digits[(lo % 10) + 1]>>

\* the decimal digits of an integer
NumberDigits(a) ==
  IF Less(a, Zero) THEN <<"-">> \o (LET b == Sub(Zero, a)
                                   IN  IF b[1] = 0 THEN NatDigits(b[2])
                                       ELSE NatDigits(b[1]) \o LimbDigits(b[2]))
  ELSE IF a[1] = 0 THEN NatDigits(a[2])
  ELSE NatDigits(a[1]) \o LimbDigits(a[2])

\* numericValue.toFixed(precision) of an integer
ToFixed(a, precision) ==
  NumberDigits(a) \o (IF precision > 0
                      THEN <<".">> \o [i \in 1..precision |-> "0"]
                      ELSE <<>>)

Placeholder == Str(<<"-", "-">>)

\* formatMetric(value, unit, precision), unit given as its characters
formatMetric(v, unit, precision) ==
  IF v.t \in {"null", "undefined"} THEN Placeholder
  ELSE LET numericValue == Number(v)
       IN  IF IsNaN(numericValue) THEN Placeholder
           ELSE LET formatted == ToFixed(numericValue.n, precision)
                IN  IF unit # <<>> THEN Str(formatted \o <<" ">> \o unit)
                    ELSE Str(formatted)

\* ------------------------------------------------------------ normalizer
\* the cutoff 1e12 of the timestamp unit inference
MsCutoff == <<Limb, 0>>

\* a raw record; a field the record does not have reads as undefined
Item(ts, timestamp, humid, humidity, temp, temperature, uv) ==
  [ts |-> ts, timestamp |-> timestamp, humid |-> humid, humidity |-> humidity,
   temp |-> temp, temperature |-> temperature, uv |-> uv]

\* InferTimestamp with the cutoff itself taken as milliseconds
InferTimestamp_AtCutoff(ts) ==
  LET timestampRaw == Number(ts)
  IN  IF IsNaN(timestampRaw) THEN Null
      ELSE IF ~Less(timestampRaw.n, MsCutoff) THEN timestampRaw
      ELSE Num(Times(timestampRaw.n, 1000))

\* the timestamp expression of the map step
InferTimestamp(ts) ==
  LET timestampRaw == Number(ts)
  IN  IF IsNaN(timestampRaw) THEN Null
      ELSE IF Less(MsCutoff, timestampRaw.n) THEN timestampRaw
      ELSE Num(Times(timestampRaw.n, 1000))

\* field !== undefined ? Number(field) : null
CoerceField(field) == IF field.t # "undefined" THEN Number(field) ELSE Null

\* ParseEntry that prefers the second alias of each field
ParseEntry_SecondAliasWins(id, item) ==
  LET humidity == Coalesce(item.humidity, item.humid)
      temperature == Coalesce(item.temperature, item.temp)
      uv == item.uv
      ts == Coalesce(item.timestamp, item.ts)
  IN  [id |-> id,
       humidity |-> CoerceField(humidity),
       temperature |-> CoerceField(temperature),
       uv |-> CoerceField(uv),
       timestamp |-> InferTimestamp(ts)]

\* the callback of .map(([id, item]) => ...)
ParseEntry(id, item) ==
  LET humidity == Coalesce(item.humid, item.humidity)
      temperature == Coalesce(item.temp, item.temperature)
      uv == item.uv
      ts == Coalesce(item.ts, item.timestamp)
  IN  [id |-> id,
       humidity |-> CoerceField(humidity),
       temperature |-> CoerceField(temperature),
       uv |-> CoerceField(uv),
       timestamp |-> InferTimestamp(ts)]

MapEntries(entries) ==
  [i \in 1..Len(entries) |-> ParseEntry(entries[i].id, entries[i].item)]

\* FilterTimestamp that drops nothing
FilterTimestamp_KeepsAll(items) == items

\* .filter((item) => item.timestamp)
RECURSIVE FilterTimestamp(_)
FilterTimestamp(items) ==
  IF items = <<>> THEN <<>>
  ELSE LET rest == FilterTimestamp(Tail(items))
       IN  IF Truthy(Head(items).timestamp) THEN <<Head(items)>> \o rest ELSE rest

\* the comparator (a, b) => a.timestamp - b.timestamp is positive
ComparesAfter(a, b) == Less(Zero, Sub(a.timestamp.n, b.timestamp.n))

\* one step of the stable sort: x goes before the first element that the
\* comparator places after it
RECURSIVE InsertByTimestamp(_, _)
InsertByTimestamp(sorted, x) ==
  IF sorted = <<>> THEN <<x>>
  ELSE IF ComparesAfter(Head(sorted), x) THEN <<x>> \o sorted
  ELSE <<Head(sorted)>> \o InsertByTimestamp(Tail(sorted), x)

\* SortByTimestamp that leaves the enumeration order
SortByTimestamp_Unsorted(items) == items

\* .sort((a, b) => a.timestamp - b.timestamp)
RECURSIVE SortByTimestamp(_)
SortByTimestamp(items) ==
  IF items = <<>> THEN <<>>
  ELSE InsertByTimestamp(SortByTimestamp(SubSeq(items, 1, Len(items) - 1)),
                         items[Len(items)])

\* parsed = Object.entries(value).map(...).filter(...).sort(...)
Parse(entries) == SortByTimestamp(FilterTimestamp(MapEntries(entries)))

\* ---------------------------------------------------------- range filter
HourMs == <<3, 600000>>

DayMs == Times(HourMs, 24)

UnitMs(unit) == IF unit = "hour" THEN HourMs ELSE DayMs

PresetKeys == {"1h", "24h", "7d", "30d"}

presets ==
  [k \in PresetKeys |->
     CASE k = "1h" -> [amount |-> 1, unit |-> "hour"]
       [] k = "24h" -> [amount |-> 24, unit |-> "hour"]
       [] k = "7d" -> [amount |-> 7, unit |-> "day"]
       [] k = "30d" -> [amount |-> 30, unit |-> "day"]]

\* dayjs(ms).subtract(amount, unit).valueOf(), in a zone whose days all
\* have 24 hours
DayjsSubtract(ms, amount, unit) == Sub(ms, Times(UnitMs(unit), amount))

\* FilterWindow with the start of the window excluded
RECURSIVE FilterWindow_ExclusiveStart(_, _, _)
FilterWindow_ExclusiveStart(items, startMs, endMs) ==
  IF items = <<>> THEN <<>>
  ELSE LET rest == FilterWindow_ExclusiveStart(Tail(items), startMs, endMs)
           ts == Head(items).timestamp.n
       IN  IF Less(startMs, ts) /\ Leq(ts, endMs)
           THEN <<Head(items)>> \o rest ELSE rest

\* activeReadings.filter((item) => item.timestamp >= startMs && item.timestamp <= endMs)
RECURSIVE FilterWindow(_, _, _)
FilterWindow(items, startMs, endMs) ==
  IF items = <<>> THEN <<>>
  ELSE LET rest == FilterWindow(Tail(items), startMs, endMs)
           ts == Head(items).timestamp.n
       IN  IF Leq(startMs, ts) /\ Leq(ts, endMs)
           THEN <<Head(items)>> \o rest ELSE rest

\* a null custom range is the empty tuple, a picked one a pair of values
NullRange == <<>>

\* RangeIncomplete that does not look at the end
RangeIncomplete_StartOnly(range) == range = NullRange \/ ~Truthy(range[1])

RangeIncomplete(range) ==
  range = NullRange \/ ~Truthy(range[1]) \/ ~Truthy(range[2])

\* the body of the filteredReadings memo, now being the Date.now() it reads
FilterReadings(active, key, range, now) ==
  IF Len(active) = 0 THEN <<>>
  ELSE IF key = "all" THEN active
  ELSE IF key = "custom" THEN
    IF RangeIncomplete(range) THEN active
    ELSE FilterWindow(active, range[1].n, range[2].n)
  ELSE LET preset == IF key \in PresetKeys THEN presets[key] ELSE presets["24h"]
           endMs == now
           startMs == DayjsSubtract(endMs, preset.amount, preset.unit)
       IN  FilterWindow(active, startMs, endMs)

\* -------------------------------------------------------- mock generator
\* the channels of a mock point are kept to whole units, the numbers of
\* this model being integers; the tables hold the sinusoidal bases in
\* hundredths for index 0..47

\* 24 + Math.sin(index / 6) * 3
TemperatureBase ==
  <<2400, 2450, 2498, 2544, 2586, 2622, 2652, 2676, 2692, 2699, 2699, 2690,
    2673, 2648, 2617, 2580, 2537, 2491, 2442, 2392, 2343, 2295, 2250, 2209,
    2173, 2144, 2121, 2107, 2100, 2102, 2112, 2130, 2156, 2188, 2227, 2270,
    2316, 2365, 2415, 2465, 2512, 2557, 2597, 2632, 2660, 2681, 2695, 2700>>

\* 60 + Math.cos(index / 5) * 10
HumidityBase ==
  <<7000, 6980, 6921, 6825, 6697, 6540, 6362, 6170, 5971, 5773, 5584, 5411,
    5263, 5143, 5058, 5010, 5002, 5033, 5103, 5209, 5346, 5510, 5693, 5888,
    6087, 6284, 6469, 6635, 6776, 6886, 6960, 6997, 6993, 6950, 6869, 6754,
    6608, 6439, 6251, 6054, 5854, 5661, 5481, 5321, 5189, 5089, 5025, 5000>>

\* 4 + Math.sin(index / 8) * 2
UvBase ==
  <<400, 425, 449, 473, 496, 517, 536, 554, 568, 580, 590, 596,
    599, 600, 597, 591, 582, 570, 556, 539, 520, 499, 476, 453,
    428, 403, 378, 354, 330, 307, 286, 266, 249, 234, 221, 211,
    204, 201, 200, 203, 208, 217, 228, 242, 259, 278, 298, 321>>

points == 48

\* (12 * 60 * 60 * 1000) / points
intervalMs == <<(12 * 60 * 60 * 1000) \div (points * Limb),
                ((12 * 60 * 60 * 1000) \div points) % Limb>>

\* the k-th value Math.random() returns, in hundredths, from the stream rnd
Random(rnd, k) == rnd[(k % Len(rnd)) + 1]

\* Number(x.toFixed(2)) of a value given in hundredths, kept to whole units
RoundChannel(hundredths) == Num(FromInt((hundredths + 50) \div 100))

\* `mock-${index}` for index 0..points-1
mockIds == [i \in 1..points |-> "mock-" \o ToString(i - 1)]

\* one element of Array.from({ length: points }, (_, index) => ...)
MockPoint(index, now, rnd) ==
  [id |-> mockIds[index + 1],
   temperature |-> RoundChannel(TemperatureBase[index + 1] + (Random(rnd, 3 * index) - 50)),
   humidity |-> RoundChannel(HumidityBase[index + 1] + (Random(rnd, 3 * index + 1) - 50) * 2),
   uv |-> RoundChannel(UvBase[index + 1] + ((Random(rnd, 3 * index + 2) - 50) * 6) \div 10),
   timestamp |-> Num(Sub(now, Times(intervalMs, points - 1 - index)))]

\* mock readings whose last point lies one interval before now
MockReadings_EndsEarly(now, rnd) ==
  [i \in 1..points |-> MockPoint(i - 1, Sub(now, intervalMs), rnd)]

\* the mock branch of activeReadings
MockReadings(now, rnd) == [i \in 1..points |-> MockPoint(i - 1, now, rnd)]

\* ---------------------------------------------------------------- inputs
U == Undefined

N(k) == Num(FromInt(k))

TsItem(ts, timestamp) == Item(ts, timestamp, U, U, U, U, U)

FieldItem(humid, humidity, temp, temperature, uv) ==
  Item(N(1), U, humid, humidity, temp, temperature, uv)

\* raw records that differ in how the timestamp is given
TimestampItems ==
  { TsItem(ts, U) : ts \in { U, Null, N(0), N(1), Str(<<"a", "b", "c">>), Str(<<>>),
                             Str(<<"7">>), Num(MsCutoff), Num(Add(MsCutoff, FromInt(1))),
                             Num(<<1609, 459200>>), Num(<<1609459, 200000>>) } }
  \cup { TsItem(U, N(5)), TsItem(N(3), N(5)), TsItem(Null, N(5)) }

\* raw records that differ in how the three channels are given
FieldItems ==
  { FieldItem(Str(<<"5", "5">>), U, U, U, U),
    FieldItem(U, N(60), U, U, U),
    FieldItem(N(55), N(60), U, U, U),
    FieldItem(Null, N(60), U, U, U),
    FieldItem(Str(<<"x">>), U, U, U, U),
    FieldItem(U, U, N(21), N(22), U),
    FieldItem(U, U, U, Str(<<"x">>), U),
    FieldItem(U, U, U, U, N(3)),
    FieldItem(U, U, U, U, Str(<<"x">>)) }

\* raw records of the snapshots with several entries, at seconds 1 and 2
SeriesItems == { Item(ts, U, U, U, N(21), U, U) : ts \in { N(1), N(2) } }

Ids == <<"a", "b", "c">>

IdIndex(id) == CHOOSE i \in 1..Len(Ids) : Ids[i] = id

Entry(id, item) == [id |-> id, item |-> item]

SeriesEntries == { Entry(Ids[i], item) : i \in 1..Len(Ids), item \in SeriesItems }

\* the entries of a mapping in enumeration order, each id at most once
EntrySeqs(n) ==
  { e \in [1..n -> SeriesEntries] :
      \A i, j \in 1..n : i < j => IdIndex(e[i].id) < IdIndex(e[j].id) }

NullValue == [t |-> "null", entries |-> <<>>]

ObjectValue(entries) == [t |-> "object", entries |-> entries]

NoValue == [t |-> "none", entries |-> <<>>]

\* what snapshot.val() can be: null, or an object of entries
SnapshotValues ==
  {NullValue, ObjectValue(<<>>)}
  \cup { ObjectValue(<<Entry("a", item)>>) : item \in TimestampItems \cup FieldItems }
  \cup UNION { { ObjectValue(e) : e \in EntrySeqs(n) } : n \in 1..MaxEntries }

\* the snapshots fed to the component with the mode toggle: null, the empty
\* object, one record with a channel that is not a number, and the series
SeriesValues ==
  {NullValue, ObjectValue(<<>>),
   ObjectValue(<<Entry("a", FieldItem(U, U, U, Str(<<"x">>), U))>>)}
  \cup UNION { { ObjectValue(e) : e \in EntrySeqs(n) } : n \in 1..MaxEntries }

\* the instants Date.now() and dayjs() return
Nows == { <<0, 1000>>, <<3, 602000>>, <<2592, 2000>> }

SegmentedKeys == {"1h", "24h", "7d", "30d", "all", "custom"}

\* what the range picker hands to its onChange
PickerValues ==
  { NullRange,
    <<Dayjs(FromInt(1000)), Null>>,
    <<Null, Dayjs(FromInt(2000))>>,
    <<Dayjs(Zero), Dayjs(FromInt(1000))>>,
    <<Dayjs(FromInt(2000)), Dayjs(<<1, 400000>>)>> }

ErrorMessage == Str(<<"m", "s", "g">>)

\* streams of Math.random() values, in hundredths
Streams == { <<0>>, <<0, 99, 50, 25>> }

Modes == {"default", "mock"}

\* ----------------------------------------------------------------- state
VARIABLES readings, loading, error, lastUpdated, rangeKey, customRange,
          value, lastEvent, effectRuns, cleanups, unsubscribed, mode

vars == <<readings, loading, error, lastUpdated, rangeKey, customRange,
          value, lastEvent, effectRuns, cleanups, unsubscribed, mode>>

\* the subscription of the latest effect run has not been released
Subscribed == effectRuns > cleanups

\* the database holds a listener: some onValue subscription whose
\* unsubscribe function has not been called
Listening == \E k \in 1..Len(unsubscribed) : unsubscribed[k] = 0

Init ==
  /\ readings = <<>>
  /\ loading = TRUE
  /\ error = Null
  /\ lastUpdated = Null
  /\ rangeKey = "24h"
  /\ customRange = NullRange
  /\ value = NoValue
  /\ lastEvent = "init"
  /\ effectRuns = 0
  /\ cleanups = 0
  /\ unsubscribed = <<>>
  /\ mode = "default"

\* the effect runs: onValue(readingsQuery, ...) subscribes
Mount ==
  /\ ~Subscribed
  /\ effectRuns < MaxMounts
  /\ effectRuns' = effectRuns + 1
  /\ unsubscribed' = Append(unsubscribed, 0)
  /\ lastEvent' = "mount"
  /\ UNCHANGED <<readings, loading, error, lastUpdated, rangeKey, customRange,
                 value, cleanups, mode>>

\* a cleanup that does not call unsubscribe
Unmount_KeepsListener ==
  /\ effectRuns > cleanups
  /\ cleanups' = cleanups + 1
  /\ lastEvent' = "unmount"
  /\ UNCHANGED <<readings, loading, error, lastUpdated, rangeKey, customRange,
                 value, effectRuns, unsubscribed, mode>>

\* the effect's cleanup: unsubscribe(), the function its own onValue returned
Unmount ==
  /\ Subscribed
  /\ cleanups' = cleanups + 1
  /\ unsubscribed' = [unsubscribed EXCEPT ![effectRuns] = @ + 1]
  /\ lastEvent' = "unmount"
  /\ UNCHANGED <<readings, loading, error, lastUpdated, rangeKey, customRange,
                 value, effectRuns, mode>>

\* OnSnapshot that appends to the held readings
OnSnapshot_Merges(v) ==
  /\ effectRuns > cleanups
  /\ value' = v
  /\ lastEvent' = "snapshot"
  /\ IF ~Truthy(v)
     THEN /\ readings' = <<>>
          /\ lastUpdated' = Null
          /\ loading' = FALSE
          /\ UNCHANGED error
     ELSE LET parsed == SortByTimestamp(readings \o Parse(v.entries))
          IN  /\ readings' = parsed
              /\ loading' = FALSE
              /\ lastUpdated' = IF Len(parsed) > 0
                                THEN parsed[Len(parsed)].timestamp ELSE Null
              /\ error' = Null
  /\ UNCHANGED <<rangeKey, customRange, effectRuns, cleanups, unsubscribed, mode>>

\* OnSnapshot that resets the range selection
OnSnapshot_ResetsRange(v) ==
  /\ effectRuns > cleanups
  /\ value' = v
  /\ lastEvent' = "snapshot"
  /\ IF ~Truthy(v)
     THEN /\ readings' = <<>>
          /\ lastUpdated' = Null
          /\ loading' = FALSE
          /\ UNCHANGED error
     ELSE LET parsed == Parse(v.entries)
          IN  /\ readings' = parsed
              /\ loading' = FALSE
              /\ lastUpdated' = IF Len(parsed) > 0
                                THEN parsed[Len(parsed)].timestamp ELSE Null
              /\ error' = Null
  /\ rangeKey' = "24h"
  /\ customRange' = NullRange
  /\ UNCHANGED <<effectRuns, cleanups, unsubscribed, mode>>

\* the snapshot callback of onValue
OnSnapshot(v) ==
  /\ Listening
  /\ value' = v
  /\ lastEvent' = "snapshot"
  /\ IF ~Truthy(v)
     THEN /\ readings' = <<>>
          /\ lastUpdated' = Null
          /\ loading' = FALSE
          /\ UNCHANGED error
     ELSE LET parsed == Parse(v.entries)
          IN  /\ readings' = parsed
              /\ loading' = FALSE
              /\ lastUpdated' = IF Len(parsed) > 0
                                THEN parsed[Len(parsed)].timestamp ELSE Null
              /\ error' = Null
  /\ UNCHANGED <<rangeKey, customRange, effectRuns, cleanups, unsubscribed, mode>>

\* OnError that also empties the held readings
OnError_ClearsReadings ==
  /\ effectRuns > cleanups
  /\ error' = ErrorMessage
  /\ loading' = FALSE
  /\ lastEvent' = "error"
  /\ readings' = <<>>
  /\ UNCHANGED <<lastUpdated, rangeKey, customRange, value, effectRuns, cleanups, unsubscribed, mode>>

\* the error callback of onValue
OnError ==
  /\ Listening
  /\ error' = ErrorMessage
  /\ loading' = FALSE
  /\ lastEvent' = "error"
  /\ UNCHANGED <<readings, lastUpdated, rangeKey, customRange, value,
                 effectRuns, cleanups, unsubscribed, mode>>

handleRangeKeyChange(key, now) ==
  /\ Subscribed
  /\ rangeKey' = key
  /\ customRange' = IF key # "custom" THEN NullRange
                    ELSE IF ~(customRange # NullRange)
                    THEN <<Dayjs(DayjsSubtract(now, 24, "hour")), Dayjs(now)>>
                    ELSE customRange
  /\ lastEvent' = "rangeKey"
  /\ UNCHANGED <<readings, loading, error, lastUpdated, value, effectRuns, cleanups, unsubscribed, mode>>

\* handleCustomRangeChange that does not select the custom key
handleCustomRangeChange_KeepsKey(picked) ==
  /\ effectRuns > cleanups
  /\ Len(readings) > 0 \/ mode = "mock"
  /\ customRange' = IF RangeIncomplete(picked) THEN NullRange ELSE picked
  /\ lastEvent' = "customRange"
  /\ UNCHANGED <<readings, loading, error, lastUpdated, rangeKey, value,
                 effectRuns, cleanups, unsubscribed, mode>>

\* the picker is disabled while there are no active readings
handleCustomRangeChange(picked) ==
  /\ Subscribed
  /\ Len(readings) > 0 \/ mode = "mock"
  /\ IF RangeIncomplete(picked)
     THEN /\ customRange' = NullRange
          /\ UNCHANGED rangeKey
     ELSE /\ customRange' = picked
          /\ rangeKey' = "custom"
  /\ lastEvent' = "customRange"
  /\ UNCHANGED <<readings, loading, error, lastUpdated, value, effectRuns, cleanups, unsubscribed, mode>>

\* the mode radio group: onChange={(event) => setMode(event.target.value)}
setMode(m) ==
  /\ Subscribed
  /\ m # mode
  /\ mode' = m
  /\ lastEvent' = "mode"
  /\ UNCHANGED <<readings, loading, error, lastUpdated, rangeKey, customRange,
                 value, effectRuns, cleanups, unsubscribed>>

Next ==
  \/ Mount
  \/ Unmount
  \/ \E v \in SnapshotValues : OnSnapshot(v)
  \/ OnError
  \/ \E key \in SegmentedKeys, now \in Nows : handleRangeKeyChange(key, now)
  \/ \E picked \in PickerValues : handleCustomRangeChange(picked)

\* the component without the mode toggle
Spec == Init /\ [][Next]_vars

\* the component with the mode toggle, fed the snapshots of SeriesValues
NextMock ==
  \/ Mount
  \/ Unmount
  \/ \E v \in SeriesValues : OnSnapshot(v)
  \/ OnError
  \/ \E key \in SegmentedKeys, now \in Nows : handleRangeKeyChange(key, now)
  \/ \E picked \in PickerValues : handleCustomRangeChange(picked)
  \/ \E m \in Modes : setMode(m)

SpecMock == Init /\ [][NextMock]_vars

\* the activeReadings memo as computed at instant genNow with the random
\* stream rnd
activeReadings(genNow, rnd) ==
  IF mode = "mock" THEN MockReadings(genNow, rnd) ELSE readings

\* the filteredReadings memo as the render at instant now computes it from
\* the held readings
filteredReadings(now) == FilterReadings(readings, rangeKey, customRange, now)

\* the filteredReadings memo over the active readings
displayedReadings(genNow, rnd, now) ==
  FilterReadings(activeReadings(genNow, rnd), rangeKey, customRange, now)

isLoading == IF mode = "default" THEN loading ELSE FALSE

\* latestReading that takes the first active reading
latestReading_First(genNow, rnd) ==
  LET active == activeReadings(genNow, rnd)
  IN  IF Len(active) > 0 THEN active[1] ELSE Null

latestReading(genNow, rnd) ==
  LET active == activeReadings(genNow, rnd)
  IN  IF Len(active) > 0 THEN active[Len(active)] ELSE Null

\* latestReading?.field
LatestField(genNow, rnd, field) ==
  IF latestReading(genNow, rnd) = Null THEN Undefined
  ELSE latestReading(genNow, rnd)[field]

\* the three Statistic cards: formatMetric(value, unit) with precision 1
temperatureCard(genNow, rnd) ==
  formatMetric(LatestField(genNow, rnd, "temperature"), <<"deg", "C">>, 1)

humidityCard(genNow, rnd) ==
  formatMetric(LatestField(genNow, rnd, "humidity"), <<"%">>, 1)

uvCard(genNow, rnd) ==
  formatMetric(LatestField(genNow, rnd, "uv"), <<>>, 1)

\* ------------------------------------------- helpers of the properties
HeldIds == { readings[i].id : i \in 1..Len(readings) }

\* the raw timestamp of a record: ts, or timestamp when ts is not defined
RawTimestamp(item) == IF item.ts.t \in {"undefined", "null"} THEN item.timestamp ELSE item.ts

\* a raw timestamp is usable when it is a number other than zero
Usable(item) == Number(RawTimestamp(item)).t = "number" /\ Number(RawTimestamp(item)).n # Zero

RetainedIds ==
  { value.entries[i].id :
      i \in { j \in 1..Len(value.entries) : Usable(value.entries[j].item) } }

Held(id) == readings[CHOOSE i \in 1..Len(readings) : readings[i].id = id]

\* the readings of a sequence whose timestamp lies in [lo, hi]
Within(seq, lo, hi) ==
  LET Inside(r) == ~Less(r.timestamp.n, lo) /\ ~Less(hi, r.timestamp.n)
  IN  SelectSeq(seq, Inside)

\* the length of a preset's window in milliseconds
WindowMs(key) ==
  CASE key = "1h" -> <<3, 600000>>
    [] key = "24h" -> <<86, 400000>>
    [] key = "7d" -> <<604, 800000>>
    [] key = "30d" -> <<2592, 0>>

At(ms) == [id |-> "x", humidity |-> Null, temperature |-> Null, uv |-> Null,
           timestamp |-> Num(ms)]

\* ---------------------------------------------------------------- claims

\* C1: after every invocation of the snapshot callback, whatever the
\* delivered value, the readings are the normalization of that value, the
\* loading flag is false and the error flag is null.
C1_SnapshotReplacesAll ==
  lastEvent = "snapshot" =>
    /\ HeldIds = RetainedIds /\ Len(readings) = Cardinality(RetainedIds)
    /\ loading = FALSE
    /\ error = Null

\* C2: each of temperature, humidity and uv of every held Reading is a
\* number or null, never NaN.
C2_FieldsNumberOrAbsent ==
  \A i \in 1..Len(readings) :
    /\ readings[i].temperature.t \in {"number", "null"}
    /\ readings[i].humidity.t \in {"number", "null"}
    /\ readings[i].uv.t \in {"number", "null"}

\* C3: a step of the error callback sets the error flag to the message and
\* the loading flag to false, and leaves the readings, lastUpdated, the
\* range key, the custom range and the subscription as they were.
C3_ErrorDelivery ==
  [][lastEvent' = "error" =>
       /\ error' = ErrorMessage
       /\ loading' = FALSE
       /\ readings' = readings
       /\ lastUpdated' = lastUpdated
       /\ rangeKey' = rangeKey
       /\ customRange' = customRange
       /\ effectRuns' = effectRuns
       /\ cleanups' = cleanups]_vars

C3_Witness ==
  /\ lastEvent = "error"
  /\ Len(readings) = 2
  /\ rangeKey = "custom"
  /\ customRange # NullRange

\* C4: every held Reading has a timestamp that is a number other than
\* zero, and an entry of the latest snapshot whose raw timestamp is missing,
\* not a number or zero is not held.
C4_TimestampRetention ==
  /\ \A i \in 1..Len(readings) :
       readings[i].timestamp.t = "number" /\ readings[i].timestamp.n # Zero
  /\ \A i \in 1..Len(value.entries) :
       ~Usable(value.entries[i].item) => value.entries[i].id \notin HeldIds

C4_Witness ==
  /\ lastEvent = "snapshot"
  /\ Len(value.entries) = 1
  /\ value.entries[1].item.ts = Str(<<>>)
  /\ readings = <<>>

\* C5: the held readings are sorted non-decreasing by timestamp.
C5_Sorted ==
  \A i, j \in 1..Len(readings) :
    i < j => ~Less(readings[j].timestamp.n, readings[i].timestamp.n)

C5_Witness ==
  /\ Len(value.entries) = 2
  /\ value.entries[1].item.ts = N(2)
  /\ value.entries[2].item.ts = N(1)
  /\ readings[1].id = value.entries[2].id
  /\ readings[2].id = value.entries[1].id

\* C6: a held Reading's timestamp is the raw number itself when that is
\* greater than 10^12 and a thousand times it otherwise; 10^12 itself is
\* multiplied, 1609459200 becomes 1609459200000, 1609459200000 stays.
C6_UnitInference ==
  /\ \A i \in 1..Len(value.entries) :
       LET e == value.entries[i]
           raw == Number(RawTimestamp(e.item)).n
       IN  e.id \in HeldIds =>
             Held(e.id).timestamp.n =
               IF raw[1] > 1000000 \/ (raw[1] = 1000000 /\ raw[2] > 0)
               THEN raw
               ELSE <<raw[1] * 1000 + (raw[2] \div 1000), (raw[2] % 1000) * 1000>>
  /\ \A i \in 1..Len(value.entries) :
       LET e == value.entries[i]
       IN  /\ e.item.ts = Num(<<1000000, 0>>) =>
                e.id \in HeldIds /\ Held(e.id).timestamp = Num(<<1000000000, 0>>)
           /\ e.item.ts = Num(<<1609, 459200>>) =>
                e.id \in HeldIds /\ Held(e.id).timestamp = Num(<<1609459, 200000>>)
           /\ e.item.ts = Num(<<1609459, 200000>>) =>
                e.id \in HeldIds /\ Held(e.id).timestamp = Num(<<1609459, 200000>>)

C6_Witness ==
  /\ Len(value.entries) = 1
  /\ value.entries[1].item.ts = Num(<<1000000, 0>>)
  /\ Len(readings) = 1
  /\ readings[1].timestamp = Num(<<1000000000, 0>>)

\* C7: a snapshot step leaves exactly the retained entries of the delivered
\* value in the held sequence, each once; an id held before the step and
\* not in the delivered value is not held after it.
C7_NoMerge ==
  [][lastEvent' = "snapshot" =>
       LET delivered == { value'.entries[i].id : i \in 1..Len(value'.entries) }
           held == { readings'[i].id : i \in 1..Len(readings') }
       IN  /\ held \subseteq delivered
           /\ \A i \in 1..Len(value'.entries) :
                Usable(value'.entries[i].item) => value'.entries[i].id \in held
           /\ \A i, j \in 1..Len(readings') :
                readings'[i].id = readings'[j].id => i = j
           /\ \A id \in HeldIds : id \notin delivered => id \notin held]_vars

\* the picked range shows that readings were held before this snapshot
C7_Witness ==
  /\ lastEvent = "snapshot"
  /\ customRange = <<Dayjs(Zero), Dayjs(FromInt(1000))>>
  /\ value = ObjectValue(<<>>)
  /\ readings = <<>>

\* C8: under a preset key the displayed sequence is the held readings with
\* now - window <= timestamp <= now, in order; an unknown key selects as
\* 24h does; readings at 0, 1000 and 2000 ms under 1h are all displayed
\* when now is 3000000 and none when now is 5000000.
C8_PresetFilter ==
  /\ \A now \in Nows :
       /\ rangeKey \in PresetKeys =>
            filteredReadings(now) = Within(readings, Sub(now, WindowMs(rangeKey)), now)
       /\ FilterReadings(readings, "1y", customRange, now) =
            Within(readings, Sub(now, WindowMs("24h")), now)
  /\ LET three == <<At(Zero), At(<<0, 1000>>), At(<<0, 2000>>)>>
     IN  /\ FilterReadings(three, "1h", NullRange, <<3, 0>>) = three
         /\ FilterReadings(three, "1h", NullRange, <<5, 0>>) = <<>>

C8_Witness ==
  /\ rangeKey = "1h"
  /\ Len(readings) = 2
  /\ readings[1].timestamp # readings[2].timestamp
  /\ filteredReadings(<<0, 1000>>) = <<readings[1]>>
  /\ filteredReadings(<<3, 602000>>) = <<readings[2]>>

\* C9: key 'all' displays the held sequence; key 'custom' with both
\* endpoints displays the readings with start <= timestamp <= end; key
\* 'custom' with no interval, or with an endpoint missing, displays the held
\* sequence.
C9_CustomAndAll ==
  \A now \in Nows :
    /\ rangeKey = "all" => filteredReadings(now) = readings
    /\ rangeKey = "custom" /\ customRange = NullRange => filteredReadings(now) = readings
    /\ rangeKey = "custom" /\ customRange # NullRange =>
         /\ customRange[1].t = "object" /\ customRange[2].t = "object"
         /\ filteredReadings(now) = Within(readings, customRange[1].n, customRange[2].n)
    /\ FilterReadings(readings, "custom", <<Dayjs(FromInt(1000)), Null>>, now) = readings
    /\ FilterReadings(readings, "custom", <<Null, Dayjs(FromInt(1000))>>, now) = readings

C9_Witness ==
  /\ rangeKey = "custom"
  /\ customRange = <<Dayjs(Zero), Dayjs(FromInt(1000))>>
  /\ Len(readings) = 2
  /\ \A now \in Nows : filteredReadings(now) = <<readings[1]>>

\* C10: the range key and the custom interval start as '24h' and null, and
\* only a step of handleRangeKeyChange or handleCustomRangeChange changes
\* them: a snapshot or error delivery never does.
C10_SelectionPersists ==
  /\ rangeKey = "24h" /\ customRange = NullRange
  /\ [][lastEvent' \notin {"rangeKey", "customRange"} =>
          rangeKey' = rangeKey /\ customRange' = customRange]_vars

C10_Witness ==
  /\ lastEvent = "snapshot"
  /\ rangeKey = "custom"
  /\ customRange = <<Dayjs(FromInt(2000)), Dayjs(<<1, 400000>>)>>
  /\ Len(readings) = 1

\* C11: every subscription made by an effect run is released exactly once,
\* by the cleanup of that run and by no other step, also when the component
\* is mounted, torn down and mounted again; a snapshot or error callback
\* runs only through a subscription that has not been released.
C11_ReleasedOnce ==
  /\ [](/\ Len(unsubscribed) = effectRuns
        /\ cleanups <= effectRuns /\ effectRuns <= cleanups + 1
        /\ \A k \in 1..Len(unsubscribed) :
             unsubscribed[k] = IF k <= cleanups THEN 1 ELSE 0)
  /\ [][/\ (\E k \in 1..Len(unsubscribed) : unsubscribed'[k] # unsubscribed[k]) =>
             lastEvent' = "unmount"
        /\ lastEvent' \in {"snapshot", "error"} =>
             effectRuns > 0 /\ unsubscribed[effectRuns] = 0 /\ cleanups < effectRuns]_vars

C11_Witness ==
  /\ effectRuns = 2
  /\ cleanups = 2
  /\ unsubscribed = <<1, 1>>
  /\ lastEvent = "unmount"
  /\ Len(readings) > 0

\* the value a field takes from its two aliases: the first when the record
\* has it, else the second when the record has it, else nothing
FromAliases(first, second) ==
  IF first.t # "undefined" THEN Number(first)
  ELSE IF second.t # "undefined" THEN Number(second)
  ELSE Null

\* C12: for every held entry of the latest snapshot whose alias fields are
\* each either missing or a value, humidity comes from humid and
\* only without it from humidity, temperature from temp and only without it
\* from temperature, the raw timestamp from ts and only without it from
\* timestamp; humid "55" alone gives 55, and neither alias gives null.
C12_AliasResolution ==
  \A i \in 1..Len(value.entries) :
    LET e == value.entries[i]
        it == e.item
        plain == \A f \in {it.humid, it.humidity, it.temp, it.temperature,
                           it.ts, it.timestamp} : f.t # "null"
    IN  (e.id \in HeldIds /\ plain) =>
          /\ Held(e.id).humidity = FromAliases(it.humid, it.humidity)
          /\ Held(e.id).temperature = FromAliases(it.temp, it.temperature)
          /\ Held(e.id).timestamp.n \in
               { FromAliases(it.ts, it.timestamp).n,
                 Times(FromAliases(it.ts, it.timestamp).n, 1000) }
          /\ (it.humid = Str(<<"5", "5">>) /\ it.humidity = Undefined) =>
               Held(e.id).humidity = Num(<<0, 55>>)
          /\ (it.humid = Undefined /\ it.humidity = Undefined) =>
               Held(e.id).humidity = Null

C12_Witness ==
  /\ Len(value.entries) = 1
  /\ value.entries[1].item.humid = Num(<<0, 55>>)
  /\ value.entries[1].item.humidity = Num(<<0, 60>>)
  /\ Len(readings) = 1
  /\ readings[1].humidity = Num(<<0, 55>>)

\* C13: a null or empty snapshot leaves no readings; when the active
\* sequence is empty the latest reading is null and the three cards show
\* "--"; when it is not, the latest reading is its last element, whose
\* timestamp is the greatest of the sequence, whatever range is selected.
C13_EmptyChain ==
  /\ (lastEvent = "snapshot" /\ Len(value.entries) = 0) => readings = <<>>
  /\ \A genNow \in Nows, rnd \in Streams :
       LET active == activeReadings(genNow, rnd)
           latest == latestReading(genNow, rnd)
       IN  /\ Len(active) = 0 =>
                /\ latest = Null
                /\ temperatureCard(genNow, rnd) = Str(<<"-", "-">>)
                /\ humidityCard(genNow, rnd) = Str(<<"-", "-">>)
                /\ uvCard(genNow, rnd) = Str(<<"-", "-">>)
           /\ Len(active) > 0 =>
                /\ latest = active[Len(active)]
                /\ \A i \in 1..Len(active) :
                     ~Less(latest.timestamp.n, active[i].timestamp.n)

C13_Witness ==
  /\ lastEvent = "snapshot"
  /\ value = NullValue
  /\ mode = "default"
  /\ error = ErrorMessage
  /\ \A genNow \in Nows, rnd \in Streams :
       /\ latestReading(genNow, rnd) = Null
       /\ temperatureCard(genNow, rnd) = Str(<<"-", "-">>)

\* C14: in mock mode the active sequence has 48 readings with distinct
\* ids and numeric temperature, humidity and uv, its timestamps rise by 15
\* minutes from one to the next and end at the now of the generation, and the
\* displayed loading state is false, whatever is held; in default mode the
\* active sequence is the held readings, those of the latest snapshot.
C14_MockMode ==
  \A genNow \in Nows, rnd \in Streams :
    LET active == activeReadings(genNow, rnd)
    IN  /\ mode = "mock" =>
             /\ Len(active) = 48
             /\ Cardinality({ active[i].id : i \in 1..Len(active) }) = 48
             /\ \A i \in 1..Len(active) :
                  /\ active[i].temperature.t = "number"
                  /\ active[i].humidity.t = "number"
                  /\ active[i].uv.t = "number"
                  /\ active[i].timestamp.t = "number"
             /\ \A i \in 1..(Len(active) - 1) :
                  Sub(active[i + 1].timestamp.n, active[i].timestamp.n) = <<0, 15 * 60 * 1000>>
             /\ active[48].timestamp = Num(genNow)
             /\ isLoading = FALSE
        /\ mode = "default" =>
             /\ active = readings
             /\ isLoading = loading
             /\ value.t # "none" =>
                  HeldIds = RetainedIds /\ Len(readings) = Cardinality(RetainedIds)

C14_Witness ==
  /\ mode = "mock"
  /\ lastEvent = "snapshot"
  /\ error = ErrorMessage
  /\ readings = <<>>
  /\ isLoading = FALSE
  /\ Len(activeReadings(<<0, 1000>>, <<0>>)) = 48

\* C15: a held custom interval has both endpoints and goes with the range
\* key 'custom'; a handleRangeKeyChange step with a key other than 'custom'
\* clears the interval, one with 'custom' and no interval held installs
\* [now - 24 h, now], and a handleCustomRangeChange step that clears the
\* interval leaves the range key as it was.
C15_SelectionConsistent ==
  /\ [](customRange # NullRange =>
          /\ rangeKey = "custom"
          /\ customRange[1].t = "object"
          /\ customRange[2].t = "object")
  /\ [][/\ (lastEvent' = "rangeKey" /\ rangeKey' # "custom") => customRange' = NullRange
        /\ (lastEvent' = "rangeKey" /\ rangeKey' = "custom" /\ customRange = NullRange) =>
             \E now \in Nows :
               customRange' = <<Dayjs(Sub(now, <<86, 400000>>)), Dayjs(now)>>
        /\ (lastEvent' = "customRange" /\ customRange' = NullRange) =>
             rangeKey' = rangeKey]_vars

C15_Witness ==
  /\ lastEvent = "customRange"
  /\ customRange = NullRange
  /\ rangeKey = "custom"

====
